---- MODULE Spec2Model ----
(***************************************************************************)
(* static/script.js: the DOMContentLoaded handler of the network scanner   *)
(* pages.  It arms a one-shot 30 s reload timer on the root path and       *)
(* constructs a bootstrap.Tooltip for every [data-bs-toggle="tooltip"]     *)
(* element.  The model follows one browsing context through its page       *)
(* loads: the event loop dispatches DOMContentLoaded, the handler runs     *)
(* statement by statement, time passes, due timers run when no task is     *)
(* running, and location.reload() ends the page load and starts the next.  *)
(***************************************************************************)
EXTENDS Integers, Sequences, FiniteSets

VARIABLES
    pathname,            \* window.location.pathname of the page load
    doc,                 \* the document: its elements in document order
    bootstrap,           \* TRUE iff the global `bootstrap` is defined
    pc,                  \* position of the DOMContentLoaded handler
    now,                 \* ms since the page load began (saturating)
    timers,              \* pending timers of the page: ms elapsed since each was armed
    armCount,            \* setTimeout calls made in this page load
    reloads,             \* window.location.reload() calls made in this page load
    tooltipTriggerList,  \* line 11: the matched elements (indices into doc)
    idx,                 \* position of Array.prototype.map in tooltipTriggerList
    calls,               \* argument lists of the `new bootstrap.Tooltip(...)` calls
    tooltipList,         \* the controllers constructed so far (by target element)
    fault,               \* the uncaught exception of the handler, or "none"
    loadedBy             \* what began this page load: "navigation" or "reload"

vars == <<pathname, doc, bootstrap, pc, now, timers, armCount, reloads,
          tooltipTriggerList, idx, calls, tooltipList, fault, loadedBy>>

-----------------------------------------------------------------------------
(* Bounds of the model *)

MaxElems == 3        \* longest document
TickMs == 10000      \* granularity of time
MaxTime == 60000     \* the clocks saturate here

(* Program constant *)
Delay == 30000

Paths == {"/", "/scan", "/results/1", "/dashboard"}

\* An element: the value of its data-bs-toggle attribute ("none": no such
\* attribute) and whether bootstrap.Tooltip throws when constructed on it.
Elements ==
    {e \in [toggle : {"none", "dropdown", "tooltip"}, malformed : BOOLEAN] :
        e.malformed => e.toggle = "tooltip"}

Documents == UNION {[1..n -> Elements] : n \in 0..MaxElems}

Min(a, b) == IF a <= b THEN a ELSE b

-----------------------------------------------------------------------------
(* Pure parts of the handler *)

\* line 4: window.location.pathname === '/'
IsRootPath_prefix(p) == p \in {"/", "/scan", "/results/1", "/dashboard"}
IsRootPath(p) == p = "/"

\* line 11: the selector [data-bs-toggle="tooltip"]
Matches_anyToggle(e) == e.toggle # "none"
Matches(e) == e.toggle = "tooltip"

RECURSIVE SelectFrom(_, _)
\* the elements of d from position i on that match, in document order
SelectFrom(d, i) ==
    IF i > Len(d) THEN <<>>
    ELSE IF Matches(d[i]) THEN <<i>> \o SelectFrom(d, i + 1)
         ELSE SelectFrom(d, i + 1)

RECURSIVE Reverse(_)
Reverse(s) == IF s = <<>> THEN <<>> ELSE Append(Reverse(Tail(s)), Head(s))

\* line 11: [].slice.call(document.querySelectorAll(...))
QuerySelectorAll_reversed(d) == Reverse(SelectFrom(d, 1))
QuerySelectorAll(d) == SelectFrom(d, 1)

\* line 5-7: the timer is due once its delay has elapsed
TimerDue_noDelay(t) == t >= 0
TimerDue(t) == t >= Delay

\* the handler is on the call stack
HandlerRunning == pc \in {"refresh", "query", "map"}

\* a page load starts: nothing has run yet
FreshPage(p, d, b, by) ==
    /\ pathname' = p
    /\ doc' = d
    /\ bootstrap' = b
    /\ pc' = "loading"
    /\ now' = 0
    /\ timers' = <<>>
    /\ armCount' = 0
    /\ reloads' = <<>>
    /\ tooltipTriggerList' = <<>>
    /\ idx' = 1
    /\ calls' = <<>>
    /\ tooltipList' = <<>>
    /\ fault' = "none"
    /\ loadedBy' = by

Init ==
    /\ pathname \in Paths
    /\ doc \in Documents
    /\ bootstrap \in BOOLEAN
    /\ pc = "loading"
    /\ now = 0
    /\ timers = <<>>
    /\ armCount = 0
    /\ reloads = <<>>
    /\ tooltipTriggerList = <<>>
    /\ idx = 1
    /\ calls = <<>>
    /\ tooltipList = <<>>
    /\ fault = "none"
    /\ loadedBy = "navigation"

-----------------------------------------------------------------------------
(* The handler *)

\* line 2: the event loop dispatches DOMContentLoaded; the handler starts
DOMContentLoaded ==
    /\ pc = "loading"
    /\ pc' = "refresh"
    /\ UNCHANGED <<loadedBy, pathname, doc, bootstrap, now, timers, armCount, reloads,
                   tooltipTriggerList, idx, calls, tooltipList, fault>>

\* lines 4-8 with `setTimeout(window.location.reload(), 30000)`: reload is called
\* at once and its result is scheduled
AutoRefresh_callNow ==
    /\ pc = "refresh"
    /\ pc' = "query"
    /\ IF IsRootPath(pathname)
       THEN /\ reloads' = Append(reloads, [elapsed |-> 0, at |-> pc])
            /\ armCount' = armCount + 1
            /\ UNCHANGED timers
       ELSE UNCHANGED <<timers, armCount, reloads>>
    /\ UNCHANGED <<loadedBy, pathname, doc, bootstrap, now,
                   tooltipTriggerList, idx, calls, tooltipList, fault>>

\* lines 4-8 guarded by the library as well as by the path
AutoRefresh_needsLibrary ==
    /\ pc = "refresh"
    /\ pc' = "query"
    /\ IF IsRootPath(pathname) /\ bootstrap
       THEN /\ timers' = Append(timers, 0)
            /\ armCount' = armCount + 1
       ELSE UNCHANGED <<timers, armCount>>
    /\ UNCHANGED <<loadedBy, pathname, doc, bootstrap, now, reloads,
                   tooltipTriggerList, idx, calls, tooltipList, fault>>

\* lines 4-8 arming the timer twice
AutoRefresh_twice ==
    /\ pc = "refresh"
    /\ pc' = "query"
    /\ IF IsRootPath(pathname)
       THEN /\ timers' = Append(Append(timers, 0), 0)
            /\ armCount' = armCount + 2
       ELSE UNCHANGED <<timers, armCount>>
    /\ UNCHANGED <<loadedBy, pathname, doc, bootstrap, now, reloads,
                   tooltipTriggerList, idx, calls, tooltipList, fault>>

\* lines 4-8: on the root path arm a timer; setTimeout returns at once
AutoRefresh ==
    /\ pc = "refresh"
    /\ pc' = "query"
    /\ IF IsRootPath(pathname)
       THEN /\ timers' = Append(timers, 0)
            /\ armCount' = armCount + 1
       ELSE UNCHANGED <<timers, armCount>>
    /\ UNCHANGED <<loadedBy, pathname, doc, bootstrap, now, reloads,
                   tooltipTriggerList, idx, calls, tooltipList, fault>>

\* line 11 evaluating `bootstrap` before the query
QueryTooltips_eagerLibrary ==
    /\ pc = "query"
    /\ IF bootstrap
       THEN /\ tooltipTriggerList' = QuerySelectorAll(doc)
            /\ idx' = 1
            /\ pc' = "map"
            /\ UNCHANGED fault
       ELSE /\ pc' = "faulted"
            /\ fault' = "ReferenceError"
            /\ UNCHANGED <<tooltipTriggerList, idx>>
    /\ UNCHANGED <<loadedBy, pathname, doc, bootstrap, now, timers, armCount, reloads,
                   calls, tooltipList>>

\* line 11: collect the marked elements
QueryTooltips ==
    /\ pc = "query"
    /\ tooltipTriggerList' = QuerySelectorAll(doc)
    /\ idx' = 1
    /\ pc' = "map"
    /\ UNCHANGED <<loadedBy, pathname, doc, bootstrap, now, timers, armCount, reloads,
                   calls, tooltipList, fault>>

\* lines 12-14 with the construction wrapped in try/catch: a failure is skipped
MapCallback_catch ==
    /\ pc = "map"
    /\ idx <= Len(tooltipTriggerList)
    /\ LET el == tooltipTriggerList[idx] IN
         /\ calls' = IF bootstrap THEN Append(calls, <<el>>) ELSE calls
         /\ tooltipList' = IF bootstrap /\ ~doc[el].malformed
                           THEN Append(tooltipList, el) ELSE tooltipList
         /\ idx' = idx + 1
    /\ UNCHANGED <<loadedBy, pathname, doc, bootstrap, pc, now, timers, armCount, reloads,
                   tooltipTriggerList, fault>>

\* lines 12-14: map calls the callback on the next element.  Evaluating
\* `bootstrap.Tooltip` throws when the library is absent; the constructor
\* throws on a malformed element.  Nothing catches either.
MapCallback ==
    /\ pc = "map"
    /\ idx <= Len(tooltipTriggerList)
    /\ LET el == tooltipTriggerList[idx] IN
         IF ~bootstrap
         THEN /\ pc' = "faulted"
              /\ fault' = "ReferenceError"
              /\ UNCHANGED <<idx, calls, tooltipList>>
         ELSE /\ calls' = Append(calls, <<el>>)
              /\ IF doc[el].malformed
                 THEN /\ pc' = "faulted"
                      /\ fault' = "TypeError"
                      /\ UNCHANGED <<idx, tooltipList>>
                 ELSE /\ tooltipList' = Append(tooltipList, el)
                      /\ idx' = idx + 1
                      /\ UNCHANGED <<pc, fault>>
    /\ UNCHANGED <<loadedBy, pathname, doc, bootstrap, now, timers, armCount, reloads,
                   tooltipTriggerList>>

\* lines 12-15: map is through the list; the handler returns
MapReturn ==
    /\ pc = "map"
    /\ idx > Len(tooltipTriggerList)
    /\ pc' = "done"
    /\ UNCHANGED <<loadedBy, pathname, doc, bootstrap, now, timers, armCount, reloads,
                   tooltipTriggerList, idx, calls, tooltipList, fault, loadedBy>>

-----------------------------------------------------------------------------
(* The hosting environment *)

\* time passes, also while a task runs
Tick ==
    /\ now < MaxTime \/ \E i \in 1..Len(timers) : timers[i] < MaxTime
    /\ \E d \in {TickMs, 2 * TickMs} :
         /\ now' = Min(now + d, MaxTime)
         /\ timers' = [i \in 1..Len(timers) |-> Min(timers[i] + d, MaxTime)]
    /\ UNCHANGED <<loadedBy, pathname, doc, bootstrap, pc, armCount, reloads,
                   tooltipTriggerList, idx, calls, tooltipList, fault>>

\* the timer list after timer i has run
AfterRun_interval(ts, i) == [ts EXCEPT ![i] = 0]
AfterRun(ts, i) == SubSeq(ts, 1, i - 1) \o SubSeq(ts, i + 1, Len(ts))

\* lines 5-7: a due timer's callback runs as a task of its own and calls
\* window.location.reload()
TimerFire ==
    /\ ~HandlerRunning
    /\ \E i \in 1..Len(timers) :
         /\ TimerDue(timers[i])
         /\ reloads' = Append(reloads, [elapsed |-> timers[i], at |-> pc])
         /\ timers' = AfterRun(timers, i)
    /\ UNCHANGED <<loadedBy, pathname, doc, bootstrap, pc, now, armCount,
                   tooltipTriggerList, idx, calls, tooltipList, fault>>

\* line 6: the reload takes effect: the page is discarded with its timers and
\* the same URL is loaded afresh.  The server is taken to send the same
\* document again; whether the library's script loads this time is open.
Reload ==
    /\ reloads # <<>>
    /\ ~HandlerRunning
    /\ \E b \in BOOLEAN : FreshPage(pathname, doc, b, "reload")

Next ==
    \/ DOMContentLoaded
    \/ AutoRefresh
    \/ QueryTooltips
    \/ MapCallback
    \/ MapReturn
    \/ Tick
    \/ TimerFire
    \/ Reload

Spec == Init /\ [][Next]_vars

\* the event loop runs every ready task and time does not stop
FairSpec ==
    /\ Spec
    /\ WF_vars(DOMContentLoaded)
    /\ WF_vars(AutoRefresh)
    /\ WF_vars(QueryTooltips)
    /\ WF_vars(MapCallback)
    /\ WF_vars(MapReturn)
    /\ WF_vars(Tick)
    /\ WF_vars(TimerFire)
    /\ WF_vars(Reload)

-----------------------------------------------------------------------------
(* What the properties are stated against: the document's marked elements,  *)
(* taken from the document itself and not from the handler's variables.     *)

\* positions of the elements carrying data-bs-toggle="tooltip"
MarkedSet(d) == {i \in DOMAIN d : d[i].toggle = "tooltip"}

\* positions of the elements not carrying it
UnmarkedSet(d) == DOMAIN d \ MarkedSet(d)

\* the j-th marked element in document order
NthMarked(d, j) ==
    CHOOSE i \in MarkedSet(d) : Cardinality({m \in MarkedSet(d) : m < i}) = j - 1

\* the marked elements in document order
MarkedSeq(d) == [j \in 1..Cardinality(MarkedSet(d)) |-> NthMarked(d, j)]

\* a construction on the j-th marked element fails: no library, or the element
\* is malformed
FailsAt(d, b, j) == ~b \/ d[NthMarked(d, j)].malformed

\* the marked element at which the handler faults, 0 if it completes
FaultIndex(d, b) ==
    LET bad == {j \in 1..Cardinality(MarkedSet(d)) : FailsAt(d, b, j)}
    IN  IF bad = {} THEN 0 ELSE CHOOSE j \in bad : \A k \in bad : j <= k

\* the constructor calls of a finished handler run, from the document and the
\* library alone
ExpectedCalls(d, b) ==
    LET k == FaultIndex(d, b)
        n == IF k = 0 THEN Cardinality(MarkedSet(d))
             ELSE IF b THEN k ELSE k - 1
    IN  [j \in 1..n |-> <<NthMarked(d, j)>>]

\* the controllers a finished handler run has constructed
ExpectedControllers(d, b) ==
    LET k == FaultIndex(d, b)
        n == IF k = 0 THEN Cardinality(MarkedSet(d)) ELSE k - 1
    IN  [j \in 1..n |-> NthMarked(d, j)]

HandlerFinished == pc \in {"done", "faulted"}

-----------------------------------------------------------------------------
(* Properties *)

\* C1: on path "/" the page load whose handler runs gets a reload; an armed
\* timer always leads to a reload; and a reload is never invoked before the
\* timer the handler armed has run its 30,000 ms.
C1_RootPathReloadsAfterDelay ==
    /\ (pc = "refresh" /\ pathname = "/") ~> (Len(reloads) = 1)
    /\ (timers # <<>>) ~> (reloads # <<>>)
    /\ [](\A k \in 1..Len(reloads) :
             reloads[k].elapsed >= Delay /\ armCount >= 1)

C1_Witness ==
    /\ pathname = "/"
    /\ Len(reloads) = 1
    /\ reloads[1].elapsed = Delay
    /\ now = Delay

\* C2: on any path other than "/" the handler arms no timer and no reload is
\* ever invoked, whatever time passes.
C2_OtherPathsNeverReload ==
    pathname # "/" => timers = <<>> /\ armCount = 0 /\ reloads = <<>>

C2_Witness ==
    /\ pathname = "/dashboard"
    /\ pc = "done"
    /\ now >= 2 * Delay
    /\ reloads = <<>>

\* C3: within one page load at most one timer is armed, it is one-shot (once
\* it has run nothing is pending), and reload is invoked at most once.
C3_AtMostOneReloadPerLoad ==
    /\ armCount <= 1
    /\ Len(timers) <= 1
    /\ Len(reloads) <= 1
    /\ reloads # <<>> => timers = <<>>

C3_Witness ==
    /\ Len(reloads) = 1
    /\ reloads[1].elapsed = Delay
    /\ now >= 2 * Delay

\* C4: with the library present, a completed handler run has made exactly one
\* constructor call per marked element, with that element as sole argument,
\* and none for an unmarked element, on every path.
C4_OneConstructionPerMarkedElement ==
    (pc = "done" /\ bootstrap) =>
        /\ Len(calls) = Cardinality(MarkedSet(doc))
        /\ \A i \in MarkedSet(doc) :
               Cardinality({k \in 1..Len(calls) : calls[k] = <<i>>}) = 1
        /\ \A k \in 1..Len(calls) :
               Len(calls[k]) = 1 /\ calls[k][1] \notin UnmarkedSet(doc)

C4_Witness ==
    /\ pc = "done"
    /\ bootstrap
    /\ pathname = "/scan"
    /\ Cardinality(MarkedSet(doc)) = 2
    /\ \E i \in UnmarkedSet(doc) : doc[i].toggle = "dropdown"
    /\ Len(calls) = 2

\* C5: the constructor calls are made in the document order of the marked
\* elements.
C5_ConstructionsInDocumentOrder ==
    \A j, k \in 1..Len(calls) : j < k => calls[j][1] < calls[k][1]

C5_Witness ==
    /\ pc = "done"
    /\ Len(calls) = 2
    /\ calls[1] = <<1>>
    /\ calls[2] = <<3>>
    /\ doc[2].toggle = "none"

\* C6: with no marked element there is no construction and no fault, on every
\* path and with or without the library.
C6_NoMarkedElementsNoFault ==
    MarkedSet(doc) = {} =>
        /\ calls = <<>>
        /\ tooltipList = <<>>
        /\ fault = "none"
        /\ pc # "faulted"

C6_Witness ==
    /\ MarkedSet(doc) = {}
    /\ doc # <<>>
    /\ ~bootstrap
    /\ pc = "done"

\* C7: while the path is "/" reloads recur: every page load gets its reload,
\* every reload starts a fresh page load whose handler arms a new timer; a
\* reload is preceded by exactly one arming in its page load; and at most one
\* timer is pending at any time.
C7_ReloadRearmsForever ==
    /\ [](pathname = "/" => <>(Len(reloads) = 1))
    /\ [](Len(reloads) = 1 => <>(pc = "loading" /\ reloads = <<>>))
    /\ []((pc = "loading" /\ pathname = "/") => <>(timers = <<0>>))
    /\ [](reloads # <<>> => armCount = 1)
    /\ [](Len(timers) <= 1)

C7_Witness ==
    /\ loadedBy = "reload"
    /\ pathname = "/"
    /\ armCount = 1
    /\ Len(reloads) = 1

\* C8: when the library is absent or the construction on the k-th marked
\* element fails, the handler ends in an uncaught fault: the constructions for
\* elements 1..k-1 stand, none is attempted after the k-th, and nothing
\* recovers or retries for the rest of the page load.
C8_FaultPropagatesUncaught ==
    /\ [](FaultIndex(doc, bootstrap) # 0 => pc # "done")
    /\ [](pc = "faulted" =>
            LET k == FaultIndex(doc, bootstrap) IN
            /\ k # 0
            /\ fault # "none"
            /\ tooltipList = [j \in 1..(k - 1) |-> NthMarked(doc, j)]
            /\ \A c \in 1..Len(calls) :
                   \E j \in 1..k : calls[c] = <<NthMarked(doc, j)>>)
    /\ [][pc = "faulted" =>
            \/ pc' = "loading"
            \/ pc' = "faulted" /\ fault' = fault /\ calls' = calls
               /\ tooltipList' = tooltipList]_vars

C8_Witness ==
    /\ pc = "faulted"
    /\ fault = "TypeError"
    /\ FaultIndex(doc, bootstrap) = 2
    /\ Cardinality(MarkedSet(doc)) = 3
    /\ tooltipList = <<1>>
    /\ now > 0

\* C9: the refresh outcome is a function of the path alone and the tooltip
\* outcome a function of the document and the library alone; on path "/" a
\* fault in tooltip initialization leaves the timer armed and the reload
\* still happens.
C9_BehavioursIndependent ==
    /\ [](pc \notin {"loading", "refresh"} =>
            armCount = IF pathname = "/" THEN 1 ELSE 0)
    /\ []((pc \in {"query", "map"} /\ pathname = "/") => Len(timers) = 1)
    /\ []((pc = "faulted" /\ pathname = "/") => Len(timers) + Len(reloads) = 1)
    /\ (pc = "faulted" /\ pathname = "/") ~> (Len(reloads) = 1)
    /\ [](HandlerFinished =>
            /\ calls = ExpectedCalls(doc, bootstrap)
            /\ tooltipList = ExpectedControllers(doc, bootstrap))

C9_Witness ==
    /\ pc = "faulted"
    /\ pathname = "/"
    /\ ~bootstrap
    /\ Len(reloads) = 1

\* C10: the handler runs once per page load and to completion: the timer is
\* armed before any construction, arming does not reload, no reload is
\* invoked while the handler runs, and every construction of a page load
\* precedes its reload.
C10_HandlerRunsToCompletion ==
    /\ [](HandlerRunning => reloads = <<>>)
    /\ [](\A k \in 1..Len(reloads) : reloads[k].at \in {"done", "faulted"})
    /\ []((pathname = "/" /\ (calls # <<>> \/ pc \in {"query", "map"}))
            => armCount = 1)
    /\ [][reloads # <<>> =>
            \/ pc' = "loading"
            \/ calls' = calls /\ tooltipList' = tooltipList /\ pc' = pc]_vars
    /\ [][HandlerFinished => pc' \in {pc, "loading"}]_vars

C10_Witness ==
    /\ pc = "map"
    /\ calls # <<>>
    /\ timers # <<>>
    /\ timers[1] >= Delay
    /\ reloads = <<>>

====
